---- MODULE Spec2Model ----
(***************************************************************************)
(* Model of the server-sent-events parser of fetch-event-source            *)
(* (src/src/parse.ts): the pull-driven pipeline                            *)
(*     getBytes -> getLines -> getMessages -> consumer.                    *)
(* Bytes and decoded characters are integers (character codes); an         *)
(* optional value (undefined in the source) is a sequence of length 0, a   *)
(* present value v is <<v>>.                                               *)
(*                                                                         *)
(* The generators run from one suspension point (an await of the upstream  *)
(* iterator, or a yield) to the next; each action is one such run.         *)
(*                                                                         *)
(* Three specifications share the actions:                                 *)
(*   Spec       parseStream: a byte stream, cut into chunks in every way,  *)
(*              through getLines and getMessages;                          *)
(*   SpecLines  getLines alone under a for-await consumer;                 *)
(*   SpecMsg    getMessages alone over a generator of lines;               *)
(*   SpecVal    the same, over lines that differ in their values.          *)
(***************************************************************************)
EXTENDS Integers, Sequences, FiniteSets, TLC

\* ------------------------------------------------------------ bounds
\* longest byte stream of SpecLines (every sequence over LineAlphabet)
MaxLen == 5
\* most segments concatenated into a byte stream of Spec
MaxSegs == 3
\* most hand-made lines fed to getMessages in SpecMsg
MaxLines == 4
\* the most groups of lines a stream of groups is made of
MaxGroups == 3
\* the most chunks a given sequence of chunks has
MaxChunks == 3

\* ------------------------------------------------------------ ControlChars
NewLine == 10
CarriageReturn == 13
Space == 32
Colon == 58

\* the field names of the switch of getMessages, as character codes
StrId == <<105, 100>>
StrData == <<100, 97, 116, 97>>
StrEvent == <<101, 118, 101, 110, 116>>
StrRetry == <<114, 101, 116, 114, 121>>

\* ------------------------------------------------------------ optional values
None == <<>>
Some(v) == <<v>>

Min(a, b) == IF a < b THEN a ELSE b
Max(a, b) == IF a > b THEN a ELSE b

\* ------------------------------------------------------------ typed arrays
\* a[i] of a Uint8Array, 0-based; an index outside the array reads undefined (-1)
At(a, i) == IF i >= 0 /\ i < Len(a) THEN a[i + 1] ELSE -1

\* one bound of subarray(): a negative index counts from the end, and the
\* result is clamped to [0, length]
ClampIndex(i, n) == IF i < 0 THEN Max(n + i, 0) ELSE Min(i, n)

\* a.subarray(begin, end), 0-based and end-exclusive
Subarray(a, begin, end) ==
    LET b == ClampIndex(begin, Len(a))
        e == ClampIndex(end, Len(a))
    IN  IF e <= b THEN <<>> ELSE SubSeq(a, b + 1, e)

\* concat(a, b): a fresh array holding a then b
Concat(a, b) == a \o b

\* TextDecoder.decode on the bytes of the model: an ASCII byte decodes to its
\* own code point, any other byte to U+FFFD (the streams of the model are ASCII)
Decode(bytes) == [i \in 1..Len(bytes) |-> IF bytes[i] < 128 THEN bytes[i] ELSE 65533]

\* ------------------------------------------------------------ state
VARIABLES
    stream,     \* every byte the chunk source will deliver, in order
    sent,       \* how many bytes of stream have been delivered in chunks
    prevSent,   \* value of sent before the latest chunk (its first byte is prevSent+1)
    pc,         \* where the pipeline is suspended: "start", "want_chunk" (getLines awaits a chunk),
                \* "line" (a line was yielded), "want_line" (the next line is asked for),
                \* "message" (getMessages is at its yield), "done",
                \* "failed" (the pull of the consumer rejected)
    buffer,     \* getLines: None (undefined) or Some(bytes)
    position,   \* getLines: current read position in buffer
    fieldLength,\* getLines: length of the field portion of the current line, or -1
    discardTrailingNewline, \* getLines: the last line ended with \r
    lineStart,  \* getLines: index in buffer where the current line starts
    lines,      \* every {line, fieldLength} yielded by the line source so far
    message,    \* getMessages: the message being built
    out,        \* every message yielded by getMessages so far
    raised,     \* the error the reader's read() rejected with, None when it did not
    unread,     \* the chunks the reader still holds, in order, when the source is a
                \* given sequence of chunks (empty when chunks are cut from stream)
    thrown,     \* the error a pull of the consumer rejected with, None when none did
    held,       \* getMessages: the object bound to message is the last one yielded,
                \* which the consumer holds (a write to it is a write to that message)
    other       \* the state of a second parseStream pipeline, suspended while this
                \* one runs: its own stream, position and locals (None: no second one)

vars == <<stream, sent, prevSent, pc, buffer, position, fieldLength,
          discardTrailingNewline, lineStart, lines, message, out, raised, thrown,
          held, unread, other>>

linesVars == <<buffer, position, fieldLength, discardTrailingNewline, lineStart>>
sourceVars == <<stream, sent, prevSent, raised, unread>>
messageVars == <<message, out, thrown, held>>

\* the line handed to the consumer of the line source by the latest yield
Cur == lines[Len(lines)]

BufLength == IF buffer = None THEN 0 ELSE Len(buffer[1])

\* ------------------------------------------------------------ getLines
\* mutant of ColonFieldLength: every colon of the line overwrites fieldLength
ColonFieldLengthLast(fl, pos, ls) == pos - ls

\* case Colon of the scan: only the first colon of a line sets fieldLength
ColonFieldLength(fl, pos, ls) == IF fl = -1 THEN pos - ls ELSE fl

\* mutant of CarriageReturnFlag: \r does not arm the skip of a following \n
CarriageReturnFlagOff == FALSE

\* case CarriageReturn of the scan sets discardTrailingNewline before falling
\* through to the NewLine case
CarriageReturnFlag == TRUE

\* mutant of Scan: a \r that is the last byte of the buffer does not end the
\* line; the scan stops on it and waits to see the byte that follows
ScanDefer(buf, pos, fl, ls) ==
    LET ends == {i \in pos..(Len(buf) - 1) : buf[i + 1] \in {NewLine, CarriageReturn}}
        end == IF ends = {} THEN Len(buf)
               ELSE CHOOSE i \in ends : \A j \in ends : i <= j
        colons == {i \in pos..(end - 1) : buf[i + 1] = Colon}
        field == IF fl = -1 /\ colons # {}
                 THEN (CHOOSE i \in colons : \A j \in colons : i <= j) - ls
                 ELSE fl
    IN  IF end = Len(buf) \/ (buf[end + 1] = CarriageReturn /\ end = Len(buf) - 1)
        THEN [position |-> end, fieldLength |-> field, lineEnd |-> -1, discard |-> FALSE]
        ELSE [position |-> end + 1, fieldLength |-> field, lineEnd |-> end,
              discard |-> buf[end + 1] = CarriageReturn]

\* the for loop that looks forward to the end of the line, from pos
RECURSIVE Scan(_, _, _, _)
Scan(buf, pos, fl, ls) ==
    IF pos >= Len(buf)
    THEN [position |-> pos, fieldLength |-> fl, lineEnd |-> -1, discard |-> FALSE]
    ELSE IF buf[pos + 1] = Colon
    THEN Scan(buf, pos + 1, ColonFieldLength(fl, pos, ls), ls)
    ELSE IF buf[pos + 1] = CarriageReturn
    THEN [position |-> pos + 1, fieldLength |-> fl, lineEnd |-> pos,
          discard |-> CarriageReturnFlag]
    ELSE IF buf[pos + 1] = NewLine
    THEN [position |-> pos + 1, fieldLength |-> fl, lineEnd |-> pos, discard |-> FALSE]
    ELSE Scan(buf, pos + 1, fl, ls)

\* mutant of SkipNewline: a \n after a \r is never skipped
SkipNewlineNever(buf, pos, ls, flag) == [position |-> pos, lineStart |-> ls]

\* the head of the while body: with the flag set, a \n at position is skipped
\* (and the line starts after it); the flag is cleared either way
SkipNewline(buf, pos, ls, flag) ==
    IF flag /\ At(buf, pos) = NewLine
    THEN [position |-> pos + 1, lineStart |-> pos + 1]
    ELSE [position |-> pos, lineStart |-> ls]

\* one pass of the while body, up to its break or its yield
LoopPass(buf, pos, fl, ls, flag) ==
    LET d == SkipNewline(buf, pos, ls, flag)
        s == Scan(buf, d.position, fl, d.lineStart)
    IN  [position |-> s.position, fieldLength |-> s.fieldLength,
         lineStart |-> d.lineStart, lineEnd |-> s.lineEnd, discard |-> s.discard]

\* mutant of KeptBuffer: the buffer is never re-sliced at lineStart, the
\* lines already yielded stay in it
KeptBufferWhole(buf, ls) == IF ls = Len(buf) THEN None ELSE Some(buf)

\* after the while loop: what is kept of the buffer for the next chunk
KeptBuffer(buf, ls) ==
    IF ls = Len(buf) THEN None
    ELSE IF ls # 0 THEN Some(Subarray(buf, ls, Len(buf)))
    ELSE Some(buf)

\* mutant of KeptPosition: the buffer is re-sliced but position is not re-based
KeptPositionNoRebase(buf, pos, ls) == pos

\* after the while loop: position, re-based when the buffer is re-sliced
KeptPosition(buf, pos, ls) ==
    IF ls = Len(buf) THEN pos
    ELSE IF ls # 0 THEN pos - ls
    ELSE pos

\* getLines leaves the while loop and awaits the next chunk
EndOfChunk(buf, pos, fl, ls, flag) ==
    /\ buffer' = KeptBuffer(buf, ls)
    /\ position' = KeptPosition(buf, pos, ls)
    /\ fieldLength' = fl
    /\ discardTrailingNewline' = flag
    /\ lineStart' = 0
    /\ lines' = lines
    /\ pc' = "want_chunk"

\* getLines runs the while loop from its test to the next suspension: the
\* yield of a line, or the await of the next chunk
RunLoop(buf, pos, fl, ls, flag) ==
    IF pos < Len(buf)
    THEN LET p == LoopPass(buf, pos, fl, ls, flag)
         IN  IF p.lineEnd = -1
             THEN EndOfChunk(buf, p.position, p.fieldLength, p.lineStart, p.discard)
             ELSE /\ buffer' = Some(buf)
                  /\ position' = p.position
                  /\ fieldLength' = p.fieldLength
                  /\ discardTrailingNewline' = p.discard
                  /\ lineStart' = p.lineStart
                  /\ lines' = Append(lines,
                        [line |-> Subarray(buf, p.lineStart, p.lineEnd),
                         fieldLength |-> p.fieldLength])
                  /\ pc' = "line"
    ELSE EndOfChunk(buf, pos, fl, ls, flag)

\* the first pull: getLines starts and awaits the first chunk
Start ==
    /\ pc = "start"
    /\ pc' = "want_chunk"
    /\ UNCHANGED <<sourceVars, linesVars, lines, messageVars, other>>

\* mutant of AdoptBuffer: the new chunk replaces the bytes carried over
\* instead of being appended to them
AdoptBufferFresh(arr) == arr

\* the working buffer once a chunk has arrived
AdoptBuffer(arr) == IF buffer # None THEN Concat(buffer[1], arr) ELSE arr

\* mutant of AdoptPosition: after a concat the scan starts again at the start
\* of the line that was carried over
AdoptPositionRescan == lineStart

AdoptPosition == IF buffer # None THEN position ELSE 0
AdoptFieldLength == IF buffer # None THEN fieldLength ELSE -1

\* getBytes yields the next chunk (any number of the remaining bytes,
\* none included) and getLines processes it up to its next suspension
SourceChunk ==
    /\ pc = "want_chunk"
    /\ \E k \in 0..(Len(stream) - sent) :
          LET arr == SubSeq(stream, sent + 1, sent + k)
          IN  /\ sent' = sent + k
              /\ prevSent' = sent
              /\ RunLoop(AdoptBuffer(arr), AdoptPosition, AdoptFieldLength, 0,
                         discardTrailingNewline)
    /\ UNCHANGED <<stream, raised, unread, messageVars, other>>

\* mutant of LinesReturn: the bytes of an unterminated last line are yielded
\* as a line when the source is done
LinesReturnFlush(ls, buf, fl) ==
    IF buf = None THEN ls ELSE Append(ls, [line |-> buf[1], fieldLength |-> fl])

\* the for-await loop of getLines ends when its source is done and getLines
\* returns: nothing is yielded for what is left in buffer
LinesReturn(ls, buf, fl) == ls

\* mutant of MessagesReturn: the pending message is yielded when the lines end
MessagesReturnFlush(o, m) ==
    IF \E f \in DOMAIN m : m[f] # None THEN Append(o, m) ELSE o

\* the for-await loop of getMessages ends when its source is done and
\* getMessages returns: nothing is yielded for the pending message
MessagesReturn(o, m) == o

\* the reader reports done: getBytes returns, and so do getLines and its consumer
SourceEnd ==
    /\ pc = "want_chunk"
    /\ sent = Len(stream)
    /\ pc' = "done"
    /\ lines' = LinesReturn(lines, buffer, fieldLength)
    /\ out' = MessagesReturn(out, message)
    /\ UNCHANGED <<sourceVars, linesVars, message, thrown, held, other>>

\* mutant of RestOfChunks: the chunk that was read stays first in line
RestOfChunksSame(chunks) == chunks

\* the chunks left in the reader after a read() has resolved with the first
RestOfChunks(chunks) == Tail(chunks)

\* getBytes over a reader that holds a given sequence of chunks: read()
\* resolves with the first of them, getBytes yields it and getLines processes
\* it up to its next suspension
SourceNext ==
    /\ pc = "want_chunk"
    /\ unread # <<>>
    /\ LET arr == Head(unread)
       IN  /\ sent' = sent + Len(arr)
           /\ prevSent' = sent
           /\ RunLoop(AdoptBuffer(arr), AdoptPosition, AdoptFieldLength, 0,
                      discardTrailingNewline)
    /\ unread' = RestOfChunks(unread)
    /\ UNCHANGED <<stream, raised, messageVars, other>>

\* the reader has no chunk left and reports done: getBytes returns, and so do
\* getLines and its consumer
SourceDone ==
    /\ pc = "want_chunk"
    /\ unread = <<>>
    /\ pc' = "done"
    /\ lines' = LinesReturn(lines, buffer, fieldLength)
    /\ out' = MessagesReturn(out, message)
    /\ UNCHANGED <<sourceVars, linesVars, message, thrown, held, other>>

\* the errors a read of the stream can reject with
Errors == {"AbortError", "NetworkError"}

\* mutant of Rethrow: a generator replaces the error of its source by its own
RethrowGeneric(e) == "Error"

\* an await or for-await outside any try block: the generator ends by
\* throwing the error it was given
Rethrow(e) == e

\* the reader's read() rejects while getBytes awaits it: getBytes throws at
\* its await, getLines and getMessages at their for-await, and the pull of
\* the consumer rejects; no generator yields on the way
SourceFail ==
    /\ pc = "want_chunk"
    /\ \E e \in Errors :
          /\ raised' = Some(e)
          /\ thrown' = Some(Rethrow(Rethrow(Rethrow(e))))
    /\ pc' = "failed"
    /\ UNCHANGED <<stream, sent, prevSent, unread, linesVars, lines, message, out, held,
                   other>>

\* mutant of LinesResume: resumed after a yield, getLines awaits the next
\* chunk without scanning the bytes it still holds
LinesResumeAwait ==
    /\ pc = "want_line"
    /\ EndOfChunk(buffer[1], position, -1, position, discardTrailingNewline)
    /\ UNCHANGED <<sourceVars, messageVars, other>>

\* getLines is resumed after a yield: the next line starts at position
LinesResume ==
    /\ pc = "want_line"
    /\ RunLoop(buffer[1], position, -1, position, discardTrailingNewline)
    /\ UNCHANGED <<sourceVars, messageVars, other>>

\* the body of a for-await loop over getLines that only looks at the line
\* (the getLines tests), then asks for the next one
ConsumeLine ==
    /\ pc = "line"
    /\ pc' = "want_line"
    /\ UNCHANGED <<sourceVars, linesVars, lines, messageVars, other>>

\* ------------------------------------------------------------ getMessages
EmptyMessage == [id |-> None, event |-> None, data |-> None, retry |-> None]

FieldKeys == {"id", "event", "data", "retry"}

\* mutant of HasFields: the empty-line branch yields whatever the message holds
HasFieldsAlways(m) == TRUE

\* for (const _ in message): the body runs when the object has a property
HasFields(m) == \E f \in FieldKeys : m[f] # None

\* mutant of AfterYield: the message object is kept after the yield
AfterYieldKeep(m) == m

\* message = {} on resuming from the yield
AfterYield(m) == EmptyMessage

\* mutant of IsFieldLine: a line is decoded as a field whatever its fieldLength
IsFieldLineAlways(fl) == TRUE

\* the test that excludes comments and lines with no values
IsFieldLine(fl) == fl > 0

\* the cases of the switch
KnownFields == {StrRetry, StrData, StrEvent, StrId}

FieldKey(field) ==
    CASE field = StrId -> "id"
      [] field = StrEvent -> "event"
      [] field = StrData -> "data"
      [] field = StrRetry -> "retry"

\* mutant of ValueOffset: every leading space of the value is skipped
RECURSIVE ValueOffsetAllSpaces(_, _)
ValueOffsetAllSpaces(line, fl) ==
    IF At(line, fl + 1) = Space THEN ValueOffsetAllSpaces(line, fl + 1) ELSE fl + 1

\* the value starts after the colon, or after the space that follows it
ValueOffset(line, fl) == fl + (IF At(line, fl + 1) = Space THEN 2 ELSE 1)

\* StrWhiteSpaceChar of parseInt, among ASCII
IsWhiteSpace(c) == c = Space \/ (c >= 9 /\ c <= 13)

IsDigit(c) == c >= 48 /\ c <= 57

\* the number read from the digits at the head of s, after acc
RECURSIVE DigitsValue(_, _)
DigitsValue(s, acc) ==
    IF s # <<>> /\ IsDigit(Head(s))
    THEN DigitsValue(Tail(s), acc * 10 + (Head(s) - 48))
    ELSE acc

RECURSIVE TrimLeft(_)
TrimLeft(s) == IF s # <<>> /\ IsWhiteSpace(Head(s)) THEN TrimLeft(Tail(s)) ELSE s

\* mutant of ParseInt: a value without digits counts as 0 instead of NaN
ParseIntOrZero(s) ==
    LET t == TrimLeft(s)
        signed == t # <<>> /\ (Head(t) = 43 \/ Head(t) = 45)
        d == IF signed THEN Tail(t) ELSE t
    IN  IF d = <<>> \/ ~IsDigit(Head(d)) THEN Some(0)
        ELSE IF signed /\ Head(t) = 45 THEN Some(0 - DigitsValue(d, 0))
        ELSE Some(DigitsValue(d, 0))

\* parseInt(s, 10): leading white space is skipped, a sign is read, then as
\* many digits as there are; None stands for NaN (no digit)
ParseInt(s) ==
    LET t == TrimLeft(s)
        signed == t # <<>> /\ (Head(t) = 43 \/ Head(t) = 45)
        d == IF signed THEN Tail(t) ELSE t
    IN  IF d = <<>> \/ ~IsDigit(Head(d)) THEN None
        ELSE IF signed /\ Head(t) = 45 THEN Some(0 - DigitsValue(d, 0))
        ELSE Some(DigitsValue(d, 0))

IsNaN(v) == v = None

\* mutant of SetField: a field that is already set keeps its first value
SetFieldOnce(m, key, value) == IF m[key] # None THEN m ELSE [m EXCEPT ![key] = Some(value)]

\* message[field] = value
SetField(m, key, value) == [m EXCEPT ![key] = Some(value)]

\* mutant of FieldCase: the switch has a default case that stores the value
\* of a line with any other field name as data
FieldCaseDefaultData(m, line, fl) ==
    LET field == Decode(Subarray(line, 0, fl))
        value == Decode(Subarray(line, ValueOffset(line, fl), Len(line)))
    IN  IF field \notin KnownFields THEN SetField(m, "data", value)
        ELSE IF field = StrRetry
        THEN IF IsNaN(ParseInt(value)) THEN m
             ELSE SetField(m, "retry", ParseInt(value)[1])
        ELSE SetField(m, FieldKey(field), value)

\* the switch on the decoded field name, for a line that passed the test
FieldCase(m, line, fl) ==
    LET field == Decode(Subarray(line, 0, fl))
        value == Decode(Subarray(line, ValueOffset(line, fl), Len(line)))
    IN  IF field \notin KnownFields THEN m
        ELSE IF field = StrRetry
        THEN IF IsNaN(ParseInt(value)) THEN m
             ELSE SetField(m, "retry", ParseInt(value)[1])
        ELSE SetField(m, FieldKey(field), value)

\* the pending message after a non-empty line
OnFieldLine(m, line, fl) == IF IsFieldLine(fl) THEN FieldCase(m, line, fl) ELSE m

\* a write to the object bound to message is seen in the last message of o
\* when that object is the one that was yielded
WrittenThrough(o, m, same) == IF same THEN [o EXCEPT ![Len(o)] = m] ELSE o

\* the body of the for-await loop of getMessages on the line just yielded: an
\* empty line yields the message when it has a field (getMessages is then
\* suspended at the yield), any other line is folded into the message and the
\* next line is asked for
MessagesOnLine ==
    /\ pc = "line"
    /\ IF Len(Cur.line) = 0
       THEN IF HasFields(message)
            THEN /\ out' = Append(out, message)
                 /\ pc' = "message"
                 /\ message' = message
                 /\ held' = TRUE
                 /\ thrown' = thrown
            ELSE /\ pc' = "want_line"
                 /\ UNCHANGED messageVars
       ELSE /\ message' = OnFieldLine(message, Cur.line, Cur.fieldLength)
            /\ out' = WrittenThrough(out, OnFieldLine(message, Cur.line, Cur.fieldLength), held)
            /\ held' = held
            /\ thrown' = thrown
            /\ pc' = "want_line"
    /\ UNCHANGED <<sourceVars, linesVars, lines, other>>

\* mutant of NewMessageObject: the object that was yielded is emptied and
\* used again for the next message
NewMessageObjectNever == FALSE

\* message = {} after the yield binds message to a new object: the one that
\* was yielded is not written to again
NewMessageObject == TRUE

\* the consumer asks for the next message: getMessages resumes after its
\* yield with a new message object and asks for the next line
ConsumerPull ==
    /\ pc = "message"
    /\ message' = AfterYield(message)
    /\ held' = (held /\ ~NewMessageObject)
    /\ out' = WrittenThrough(out, AfterYield(message), held /\ ~NewMessageObject)
    /\ pc' = "want_line"
    /\ UNCHANGED <<sourceVars, linesVars, lines, thrown, other>>

\* ------------------------------------------------------------ inputs
LineAlphabet == {120, Colon, NewLine, CarriageReturn}

RECURSIVE SeqsUpTo(_, _)
SeqsUpTo(S, n) ==
    IF n = 0 THEN {<<>>}
    ELSE LET shorter == SeqsUpTo(S, n - 1)
         IN  shorter \cup {Append(s, b) : s \in shorter, b \in S}

\* position and fieldLength are declared without a value and are assigned on
\* the first chunk before any read, so the values given here are never read
InitCommon ==
    /\ sent = 0
    /\ prevSent = 0
    /\ pc = "start"
    /\ buffer = None
    /\ position = 0
    /\ fieldLength = -1
    /\ discardTrailingNewline = FALSE
    /\ lineStart = 0
    /\ lines = <<>>
    /\ message = EmptyMessage
    /\ out = <<>>
    /\ raised = None
    /\ unread = <<>>
    /\ thrown = None
    /\ held = FALSE
    /\ other = None

\* getLines alone, over every byte stream of at most MaxLen bytes
InitLines ==
    /\ stream \in SeqsUpTo(LineAlphabet, MaxLen)
    /\ InitCommon

NextLines == Start \/ SourceChunk \/ SourceEnd \/ LinesResume \/ ConsumeLine

SpecLines == InitLines /\ [][NextLines]_vars

\* ------------------------------------------------------------ getLines on one chunk
\* the lines getLines yields from position pos of a buffer that is the only
\* chunk: the while loop run to its break, yield after yield
RECURSIVE LinesOfBuffer(_, _, _, _, _)
LinesOfBuffer(buf, pos, fl, ls, flag) ==
    IF pos < Len(buf)
    THEN LET p == LoopPass(buf, pos, fl, ls, flag)
         IN  IF p.lineEnd = -1 THEN <<>>
             ELSE <<[line |-> Subarray(buf, p.lineStart, p.lineEnd),
                     fieldLength |-> p.fieldLength]>>
                  \o LinesOfBuffer(buf, p.position, -1, p.position, p.discard)
    ELSE <<>>

\* everything getLines yields when the whole byte sequence arrives as one chunk
WholeChunkLines(bytes) == LinesOfBuffer(bytes, 0, -1, 0, FALSE)

\* the texts of the hand-made lines given to getMessages:
\*   "", "data:x", "data: 1", "id:x", "event:", "retry:1", "retry: 2x",
\*   "retry:x", ":x", "idx", "x:1"
\* the messages getMessages yields for the lines ls when it runs alone, from
\* the message m: the loop body of getMessages, line after line
RECURSIVE MessagesOfLines(_, _)
MessagesOfLines(ls, m) ==
    IF ls = <<>> THEN <<>>
    ELSE IF Len(Head(ls).line) = 0
    THEN IF HasFields(m)
         THEN <<m>> \o MessagesOfLines(Tail(ls), AfterYield(m))
         ELSE MessagesOfLines(Tail(ls), m)
    ELSE MessagesOfLines(Tail(ls), OnFieldLine(m, Head(ls).line, Head(ls).fieldLength))

\* what parseStream emits for the bytes when no other pipeline runs
AloneMessages(bytes) == MessagesOfLines(WholeChunkLines(bytes), EmptyMessage)

LineTexts ==
    { <<>>,
      StrData \o <<Colon, 120>>,
      StrData \o <<Colon, Space, 49>>,
      StrId \o <<Colon, 120>>,
      StrEvent \o <<Colon>>,
      StrRetry \o <<Colon, 49>>,
      StrRetry \o <<Colon, Space, 50, 120>>,
      StrRetry \o <<Colon, 120>>,
      <<Colon, 120>>,
      StrId \o <<120>>,
      <<120, Colon, 49>> }

\* each text as getLines yields it when it ends with \n
LineInputs == {WholeChunkLines(t \o <<NewLine>>)[1] : t \in LineTexts}

\* getMessages alone, over a generator of hand-made lines (the getMessages
\* tests): the first pull starts getMessages, which asks for the first line
StartMessages ==
    /\ pc = "start"
    /\ pc' = "want_line"
    /\ UNCHANGED <<sourceVars, linesVars, lines, messageVars, other>>

\* the generator of lines yields one more line
FeedLine ==
    /\ pc = "want_line"
    /\ Len(lines) < MaxLines
    /\ \E l \in LineInputs : lines' = Append(lines, l)
    /\ pc' = "line"
    /\ UNCHANGED <<sourceVars, linesVars, messageVars, other>>

\* the generator of lines returns, and so does getMessages
FeedEnd ==
    /\ pc = "want_line"
    /\ pc' = "done"
    /\ out' = MessagesReturn(out, message)
    /\ UNCHANGED <<sourceVars, linesVars, lines, message, thrown, held, other>>

InitMsg ==
    /\ stream = <<>>
    /\ InitCommon

\* the texts of the lines given to getMessages to look at field values:
\*   "", "id:x", "id: x", "id:  x", "id:x ", "id:", "event:x", "event: ",
\*   "data: x", "retry:1"
ValueTexts ==
    { <<>>,
      StrId \o <<Colon, 120>>,
      StrId \o <<Colon, Space, 120>>,
      StrId \o <<Colon, Space, Space, 120>>,
      StrId \o <<Colon, 120, Space>>,
      StrId \o <<Colon>>,
      StrEvent \o <<Colon, 120>>,
      StrEvent \o <<Colon, Space>>,
      StrData \o <<Colon, Space, 120>>,
      StrRetry \o <<Colon, 49>> }

ValueInputs == {WholeChunkLines(t \o <<NewLine>>)[1] : t \in ValueTexts}

\* the generator of lines yields one more line, out of ValueInputs
FeedValueLine ==
    /\ pc = "want_line"
    /\ Len(lines) < MaxLines
    /\ \E l \in ValueInputs : lines' = Append(lines, l)
    /\ pc' = "line"
    /\ UNCHANGED <<sourceVars, linesVars, messageVars, other>>

NextVal == StartMessages \/ FeedValueLine \/ FeedEnd \/ MessagesOnLine \/ ConsumerPull

\* getMessages alone, over lines that differ in their values
SpecVal == InitMsg /\ [][NextVal]_vars

NextMsg == StartMessages \/ FeedLine \/ FeedEnd \/ MessagesOnLine \/ ConsumerPull

SpecMsg == InitMsg /\ [][NextMsg]_vars

\* the segments byte streams of the whole pipeline are made of:
\*   "id:x\n", "id\n", "data: x\n", "data\r", "\n", "\r\n"
Segments ==
    { StrId \o <<Colon, 120, NewLine>>,
      StrId \o <<NewLine>>,
      StrData \o <<Colon, Space, 120, NewLine>>,
      StrData \o <<CarriageReturn>>,
      <<NewLine>>,
      <<CarriageReturn, NewLine>> }

RECURSIVE Streams(_)
Streams(n) ==
    IF n = 0 THEN {<<>>}
    ELSE LET shorter == Streams(n - 1)
         IN  shorter \cup {s \o g : s \in shorter, g \in Segments}

\* parseStream: getMessages over getLines over getBytes, pulled by a consumer
Init ==
    /\ stream \in Streams(MaxSegs)
    /\ InitCommon

Next ==
    \/ Start
    \/ SourceChunk
    \/ SourceEnd
    \/ LinesResume
    \/ MessagesOnLine
    \/ ConsumerPull

Spec == Init /\ [][Next]_vars

\* the groups of lines byte streams of several messages are made of:
\*   "id:x\n\n", "data:y\n\n", and ":c\n\n", a group that sets no field
GroupTexts ==
    { StrId \o <<Colon, 120, NewLine, NewLine>>,
      StrData \o <<Colon, 121, NewLine, NewLine>>,
      <<Colon, 99, NewLine, NewLine>> }

RECURSIVE GroupStreams(_)
GroupStreams(n) ==
    IF n = 0 THEN {<<>>}
    ELSE LET shorter == GroupStreams(n - 1)
         IN  shorter \cup {s \o g : s \in shorter, g \in GroupTexts}

\* parseStream over a stream of several groups
InitGroups ==
    /\ stream \in GroupStreams(MaxGroups)
    /\ InitCommon

SpecGroups == InitGroups /\ [][Next]_vars

\* the state of the pipeline that is running: the stream it reads, and the
\* locals of its getLines and getMessages calls
Session ==
    [stream |-> stream, sent |-> sent, prevSent |-> prevSent, pc |-> pc,
     buffer |-> buffer, position |-> position, fieldLength |-> fieldLength,
     discardTrailingNewline |-> discardTrailingNewline, lineStart |-> lineStart,
     lines |-> lines, message |-> message, out |-> out,
     raised |-> raised, thrown |-> thrown, held |-> held, unread |-> unread]

\* the state of a pipeline that parseStream(s) has just made
NewSession(s) ==
    [stream |-> s, sent |-> 0, prevSent |-> 0, pc |-> "start",
     buffer |-> None, position |-> 0, fieldLength |-> -1,
     discardTrailingNewline |-> FALSE, lineStart |-> 0,
     lines |-> <<>>, message |-> EmptyMessage, out |-> <<>>,
     raised |-> None, thrown |-> None, held |-> FALSE, unread |-> <<>>]

\* mutant of Switch: discardTrailingNewline is one variable shared by the two
\* pipelines instead of a local of each getLines call
SwitchSharedFlag ==
    /\ other # None
    /\ other' = Session
    /\ stream' = other.stream
    /\ sent' = other.sent
    /\ prevSent' = other.prevSent
    /\ pc' = other.pc
    /\ buffer' = other.buffer
    /\ position' = other.position
    /\ fieldLength' = other.fieldLength
    /\ discardTrailingNewline' = discardTrailingNewline
    /\ lineStart' = other.lineStart
    /\ lines' = other.lines
    /\ message' = other.message
    /\ out' = other.out
    /\ raised' = other.raised
    /\ unread' = other.unread
    /\ thrown' = other.thrown
    /\ held' = other.held

\* the pipeline that runs is suspended at its await or yield and the next
\* pull goes to the other pipeline: each call of getLines and of getMessages
\* has its own buffer, position, fieldLength, discardTrailingNewline and
\* message, which stay as that call left them
Switch ==
    /\ other # None
    /\ other' = Session
    /\ stream' = other.stream
    /\ sent' = other.sent
    /\ prevSent' = other.prevSent
    /\ pc' = other.pc
    /\ buffer' = other.buffer
    /\ position' = other.position
    /\ fieldLength' = other.fieldLength
    /\ discardTrailingNewline' = other.discardTrailingNewline
    /\ lineStart' = other.lineStart
    /\ lines' = other.lines
    /\ message' = other.message
    /\ out' = other.out
    /\ raised' = other.raised
    /\ unread' = other.unread
    /\ thrown' = other.thrown
    /\ held' = other.held

\* the byte streams of two pipelines that run at once:
\*   "id:x\r", "\n", "data:y\n\n"
PairStreams ==
    { StrId \o <<Colon, 120, CarriageReturn>>,
      <<NewLine>>,
      StrData \o <<Colon, 121, NewLine, NewLine>> }

\* two calls of parseStream, on a stream each
InitPair ==
    /\ stream \in PairStreams
    /\ sent = 0
    /\ prevSent = 0
    /\ pc = "start"
    /\ buffer = None
    /\ position = 0
    /\ fieldLength = -1
    /\ discardTrailingNewline = FALSE
    /\ lineStart = 0
    /\ lines = <<>>
    /\ message = EmptyMessage
    /\ out = <<>>
    /\ raised = None
    /\ unread = <<>>
    /\ thrown = None
    /\ held = FALSE
    /\ \E s \in PairStreams : other = NewSession(s)

\* the pulls of the two pipelines, interleaved in any order
NextPair ==
    \/ Next
    \/ Switch

SpecPair == InitPair /\ [][NextPair]_vars

\* the chunks a given sequence of chunks is made of: the empty chunk,
\*   "id:x\n", "\n", "\r", "x"
ChunkTexts ==
    { <<>>,
      StrId \o <<Colon, 120, NewLine>>,
      <<NewLine>>,
      <<CarriageReturn>>,
      <<120>> }

RECURSIVE Flatten(_)
Flatten(chunks) == IF chunks = <<>> THEN <<>> ELSE Head(chunks) \o Flatten(Tail(chunks))

\* parseStream over a finite sequence of chunks followed by the end of the
\* stream
InitTerm ==
    /\ unread \in SeqsUpTo(ChunkTexts, MaxChunks)
    /\ stream = Flatten(unread)
    /\ sent = 0
    /\ prevSent = 0
    /\ pc = "start"
    /\ buffer = None
    /\ position = 0
    /\ fieldLength = -1
    /\ discardTrailingNewline = FALSE
    /\ lineStart = 0
    /\ lines = <<>>
    /\ message = EmptyMessage
    /\ out = <<>>
    /\ raised = None
    /\ thrown = None
    /\ held = FALSE
    /\ other = None

NextTerm ==
    \/ Start
    \/ SourceNext
    \/ SourceDone
    \/ LinesResume
    \/ MessagesOnLine
    \/ ConsumerPull

\* the consumer keeps pulling and the reader answers every read, so a step
\* that can be taken is taken
SpecTerm == InitTerm /\ [][NextTerm]_vars /\ WF_vars(NextTerm)

\* parseStream over a stream whose reader can fail at any read
NextFail ==
    \/ Next
    \/ SourceFail

SpecFail == InitGroups /\ [][NextFail]_vars

\* ------------------------------------------------------------ reference definitions
IsPrefix(s, t) == Len(s) <= Len(t) /\ s = SubSeq(t, 1, Len(s))

IsTerminator(b) == b = NewLine \/ b = CarriageReturn

HasTerminator(s) == \E i \in 1..Len(s) : IsTerminator(s[i])

FirstTerminator(s) ==
    CHOOSE i \in 1..Len(s) :
        IsTerminator(s[i]) /\ \A j \in 1..(i - 1) : ~IsTerminator(s[j])

\* the bytes of s before its first terminator
FirstLine(s) == SubSeq(s, 1, FirstTerminator(s) - 1)

\* the reference split: a line for every \n, \r and \r\n, the pair \r\n
\* being one terminator; bytes after the last terminator are no line
RECURSIVE RefSplit(_)
RefSplit(s) ==
    IF ~HasTerminator(s) THEN <<>>
    ELSE LET i == FirstTerminator(s)
             width == IF s[i] = CarriageReturn /\ i < Len(s) /\ s[i + 1] = NewLine
                      THEN 2 ELSE 1
         IN  <<SubSeq(s, 1, i - 1)>> \o RefSplit(SubSeq(s, i + width, Len(s)))

\* offset of the first colon of a line, -1 when it has none
RefFirstColon(l) ==
    IF \E i \in 1..Len(l) : l[i] = Colon
    THEN (CHOOSE i \in 1..Len(l) :
             l[i] = Colon /\ \A j \in 1..(i - 1) : l[j] # Colon) - 1
    ELSE -1

LineBytes == [i \in 1..Len(lines) |-> lines[i].line]

\* the latest chunk began strictly inside the stream: there were at least two
Chunked == 0 < prevSent /\ prevSent < sent

\* ------------------------------------------------------------ claims on getLines
\* C1: chunking invariance of getLines. However the byte sequence is split
\* into chunks, the (line, fieldLength) pairs yielded so far are the first
\* pairs of the one-chunk run, and once the source has ended they are all of
\* them.
C1_ChunkingInvariance ==
    /\ IsPrefix(lines, WholeChunkLines(stream))
    /\ pc = "done" => lines = WholeChunkLines(stream)

\* C1 witness: a run that ended after a split between \r and \n and yielded
\* lines on both sides of the split
C1_Witness ==
    /\ pc = "done"
    /\ Chunked
    /\ stream[prevSent] = CarriageReturn
    /\ stream[prevSent + 1] = NewLine
    /\ Len(lines) >= 2
    /\ prevSent + 1 < Len(stream)

\* C6: the lines yielded are the reference split of the stream at every \n,
\* \r and \r\n; no yielded line holds a CR or LF byte.
C6_ReferenceSplit ==
    /\ IsPrefix(LineBytes, RefSplit(stream))
    /\ pc = "done" => LineBytes = RefSplit(stream)
    /\ \A i \in 1..Len(lines) :
          \A j \in 1..Len(lines[i].line) : ~IsTerminator(lines[i].line[j])

\* C6 witness: a finished run over a stream holding \r\n\n, which yields a
\* line for the pair and an empty line for the second \n
C6_Witness ==
    /\ pc = "done"
    /\ \E i \in 1..(Len(stream) - 2) :
          /\ stream[i] = CarriageReturn
          /\ stream[i + 1] = NewLine
          /\ stream[i + 2] = NewLine
    /\ \E k \in 1..Len(lines) : lines[k].line = <<>>

\* a chunk whose first byte is \n arrives right after a chunk that ended in \r
SplitCRLF ==
    /\ pc = "want_chunk"
    /\ sent > 0
    /\ stream[sent] = CarriageReturn
    /\ sent' > sent
    /\ stream[sent + 1] = NewLine

\* C7: when a chunk ending in \r is followed by a chunk starting with \n, no
\* empty line is yielded for that \n: the next line, if the chunk completes
\* one, is made of the bytes after the \n; otherwise those bytes are all that
\* is kept.
C7_SplitCRLFIsOneEnding ==
    [][SplitCRLF =>
          LET rest == SubSeq(stream, sent + 2, sent')
          IN  IF HasTerminator(rest)
              THEN /\ Len(lines') = Len(lines) + 1
                   /\ lines'[Len(lines')].line = FirstLine(rest)
              ELSE /\ lines' = lines
                   /\ buffer' = IF rest = <<>> THEN None ELSE Some(rest)]_vars

\* C7 witness: a non-empty line was yielded that starts right after the
\* skipped \n of such a chunk
C7_Witness ==
    /\ pc = "line"
    /\ prevSent > 0
    /\ sent > prevSent + 1
    /\ stream[prevSent] = CarriageReturn
    /\ stream[prevSent + 1] = NewLine
    /\ lineStart = 1
    /\ Cur.line # <<>>

\* C8: the fieldLength of every yielded line is the offset of the line's
\* first colon: -1 when there is none, 0 when the line starts with one,
\* below the line length otherwise; later colons do not change it.
C8_FieldLengthIsFirstColon ==
    \A i \in 1..Len(lines) :
        /\ lines[i].fieldLength = RefFirstColon(lines[i].line)
        /\ lines[i].fieldLength < Len(lines[i].line) \/ lines[i].line = <<>>
        /\ lines[i].fieldLength = 0
              <=> (lines[i].line # <<>> /\ lines[i].line[1] = Colon)

\* C8 witness: a line with two colons, the first not at its start, yielded
\* from a buffer that was put together from several chunks, on a later line
\* of the stream
C8_Witness ==
    /\ pc = "line"
    /\ Chunked
    /\ Len(lines) >= 2
    /\ Cur.fieldLength = 1
    /\ Cardinality({i \in 1..Len(Cur.line) : Cur.line[i] = Colon}) >= 2

\* ------------------------------------------------------------ reference reading of a line
\* (written from the event-stream format, not from the code of getMessages)

HasColon(l) == \E i \in 1..Len(l) : l[i] = Colon

\* the field name of a line: the bytes before its first colon
RefName(l) == IF HasColon(l) THEN SubSeq(l, 1, RefFirstColon(l)) ELSE <<>>

\* the field value of a line: the bytes after its first colon, less one
\* leading space
RefValue(l) ==
    LET c == RefFirstColon(l) + 1
        from == IF c < Len(l) /\ l[c + 1] = Space THEN c + 2 ELSE c + 1
    IN  IF HasColon(l) THEN SubSeq(l, from, Len(l)) ELSE <<>>

\* where the digits of an integer value begin: after the leading white space
\* and one sign
RefDigitsFrom(v) ==
    LET w == IF \E i \in 1..Len(v) : ~IsWhiteSpace(v[i])
             THEN CHOOSE i \in 1..Len(v) :
                      ~IsWhiteSpace(v[i]) /\ \A j \in 1..(i - 1) : IsWhiteSpace(v[j])
             ELSE Len(v) + 1
    IN  IF w <= Len(v) /\ v[w] \in {43, 45} THEN w + 1 ELSE w

\* the value reads as a base-10 integer: it has a digit where digits begin
RefIsInt(v) == RefDigitsFrom(v) <= Len(v) /\ IsDigit(v[RefDigitsFrom(v)])

\* the integer a value reads as: its run of digits, with its sign
RefInt(v) ==
    LET a == RefDigitsFrom(v)
        b == CHOOSE k \in a..Len(v) :
                 /\ \A i \in a..k : IsDigit(v[i])
                 /\ k = Len(v) \/ ~IsDigit(v[k + 1])
        RECURSIVE Pow10(_)
        Pow10(n) == IF n = 0 THEN 1 ELSE 10 * Pow10(n - 1)
        RECURSIVE Sum(_)
        Sum(i) == IF i > b THEN 0 ELSE (v[i] - 48) * Pow10(b - i) + Sum(i + 1)
    IN  IF a > 1 /\ v[a - 1] = 45 THEN 0 - Sum(a) ELSE Sum(a)

\* the fields a line sets: one of id, event, data, or retry when its value
\* reads as an integer; none for any other line
RefSets(l) ==
    IF RefName(l) = StrId THEN {"id"}
    ELSE IF RefName(l) = StrEvent THEN {"event"}
    ELSE IF RefName(l) = StrData THEN {"data"}
    ELSE IF RefName(l) = StrRetry /\ RefIsInt(RefValue(l)) THEN {"retry"}
    ELSE {}

\* the sets of fields of the messages a sequence of lines gives rise to: one
\* message per empty line that ends a group in which a field was set
RECURSIVE RefFieldSets(_, _)
RefFieldSets(ls, pending) ==
    IF ls = <<>> THEN <<>>
    ELSE IF Head(ls).line = <<>>
    THEN (IF pending # {} THEN <<pending>> ELSE <<>>) \o RefFieldSets(Tail(ls), {})
    ELSE RefFieldSets(Tail(ls), pending \cup RefSets(Head(ls).line))

\* the lines getMessages has handled (the latest one is still to be handled
\* while the pipeline is at "line")
Processed == IF pc = "line" THEN SubSeq(lines, 1, Len(lines) - 1) ELSE lines

FieldsOf(m) == {f \in FieldKeys : m[f] # None}

\* the lines of the latest group: those after the last empty line before the
\* final line of ls
LastGroup(ls) ==
    LET n == Len(ls) - 1
        empties == {i \in 1..n : ls[i].line = <<>>}
        from == IF empties = {} THEN 1
                ELSE (CHOOSE i \in empties : \A j \in empties : j <= i) + 1
    IN  SubSeq(ls, from, n)

\* the values of the data lines of a group, joined by \n
RECURSIVE RefJoinedData(_)
RefJoinedData(g) ==
    IF g = <<>> THEN None
    ELSE LET before == RefJoinedData(SubSeq(g, 1, Len(g) - 1))
             l == g[Len(g)].line
         IN  IF RefName(l) # StrData THEN before
             ELSE IF before = None THEN Some(RefValue(l))
             ELSE Some(before[1] \o <<NewLine>> \o RefValue(l))

\* ------------------------------------------------------------ claims on getMessages
\* C2: when a group holds several data lines, the data of the message emitted
\* for it is the values of those lines, in order, joined by \n.
C2_DataLinesJoined ==
    pc = "message" => out[Len(out)].data = RefJoinedData(LastGroup(lines))

\* C3: in a stream parsed end to end, a line that is only a field name is that
\* field with an empty value: after "id:x", a bare "id" line resets the id of
\* the message to the empty string, and a bare "data" line adds an empty
\* segment to data.
C3_BareFieldIsEmptyValue ==
    (pc # "line" /\ Len(lines) >= 2 /\ Cur.line = <<>>) =>
        /\ lines[Len(lines) - 1].line = StrId =>
              out # <<>> /\ out[Len(out)].id = Some(<<>>)
        /\ lines[Len(lines) - 1].line = StrData =>
              /\ out # <<>>
              /\ out[Len(out)].data # None
              /\ LET d == out[Len(out)].data[1]
                 IN  d = <<>> \/ d[Len(d)] = NewLine

\* C4: a non-empty line whose fieldLength is <= 0 (a comment, or a line with
\* no colon) leaves the pending message as it is and emits nothing.
C4_NoFieldLineIgnored ==
    [][(pc = "line" /\ Cur.line # <<>> /\ Cur.fieldLength <= 0) =>
          (message' = message /\ out' = out /\ pc' = "want_line")]_vars

\* C4 witness: a comment and a line with no colon have both been handled
\* while a field was pending, and the field is still pending
C4_Witness ==
    /\ pc = "want_line"
    /\ Len(lines) = 3
    /\ lines[1].line = StrId \o <<Colon, 120>>
    /\ lines[2].fieldLength = 0
    /\ lines[3].fieldLength = -1
    /\ lines[3].line # <<>>
    /\ message = [EmptyMessage EXCEPT !.id = Some(<<120>>)]

C9_ResetAfterEmission ==
    /\ [k \in 1..Len(out) |-> FieldsOf(out[k])] = RefFieldSets(Processed, {})
    /\ (pc \in {"want_line", "done"} /\ lines # <<>> /\ Cur.line = <<>>)
          => message = EmptyMessage

\* C9 witness: two messages were emitted, the first with an id and the
\* second, emitted for the next group, with data and no id
C9_Witness ==
    /\ pc = "message"
    /\ Len(out) = 2
    /\ FieldsOf(out[1]) = {"id"}
    /\ FieldsOf(out[2]) = {"data"}

RECURSIVE RefEmittingGroups(_, _)
RefEmittingGroups(ls, group) ==
    IF ls = <<>> THEN <<>>
    ELSE IF Head(ls).line = <<>>
    THEN (IF \E i \in 1..Len(group) : RefSets(group[i].line) # {}
          THEN <<group>> ELSE <<>>) \o RefEmittingGroups(Tail(ls), <<>>)
    ELSE RefEmittingGroups(Tail(ls), Append(group, Head(ls)))

\* the lines of a group that set the field key
RefSetters(group, key) == {i \in 1..Len(group) : key \in RefSets(group[i].line)}

\* the value of the last line of a group that sets key; None when none does
RefLastValue(group, key) ==
    IF RefSetters(group, key) = {} THEN None
    ELSE LET i == CHOOSE i \in RefSetters(group, key) :
                      \A j \in RefSetters(group, key) : j <= i
         IN  Some(RefValue(group[i].line))

C12_ValueAfterSeparator ==
    [][(pc = "line" /\ RefName(Cur.line) \in {StrId, StrEvent, StrData}) =>
          message' = [message EXCEPT
                         ![FieldKey(RefName(Cur.line))] = Some(RefValue(Cur.line))]]_vars

\* C12 witness: "id:  x" was handled and the id is " x": one of the two
\* spaces was removed and the other kept
C12_Witness ==
    /\ pc = "want_line"
    /\ Len(lines) = 1
    /\ lines[1].line = StrId \o <<Colon, Space, Space, 120>>
    /\ message.id = Some(<<Space, 120>>)

\* C13: a line whose field name is not id, event, data or retry leaves the
\* pending message as it is and emits nothing, so a group of such lines emits
\* no message.
C13_UnknownFieldIgnored ==
    [][(pc = "line" /\ Cur.fieldLength > 0
          /\ RefName(Cur.line) \notin {StrId, StrEvent, StrData, StrRetry}) =>
          (message' = message /\ out' = out /\ pc' = "want_line")]_vars

\* C13 witness: a group made of a line with an unknown field name ended
\* without a message
C13_Witness ==
    /\ pc = "want_line"
    /\ Len(lines) = 2
    /\ lines[1].line = <<120, Colon, 49>>
    /\ lines[2].line = <<>>
    /\ out = <<>>
    /\ message = EmptyMessage

\* C14: when the lines end while fields are pending, no message is emitted for
\* them: the messages are those of the groups ended by an empty line, and
\* there are never more messages than empty lines handled.
C14_PendingDiscardedAtEnd ==
    /\ Len(out) <= Cardinality({i \in 1..Len(Processed) : Processed[i].line = <<>>})
    /\ pc = "done" => Len(out) = Len(RefFieldSets(lines, {}))

\* C14 witness: the lines ended after a message, with an id pending that was
\* never emitted
C14_Witness ==
    /\ pc = "done"
    /\ Len(out) = 1
    /\ message.id # None
    /\ Cur.line # <<>>

\* C15: when the chunks end while the bytes of an unterminated line are
\* pending, no line is yielded for them: there are never more lines than line
\* endings in the bytes received.
C15_UnterminatedLineDropped ==
    /\ Len(lines) <= Len(RefSplit(SubSeq(stream, 1, sent)))
    /\ (pc = "done" /\ stream # <<>> /\ ~IsTerminator(stream[Len(stream)]))
          => /\ buffer # None
             /\ Len(lines) = Cardinality({i \in 1..Len(stream) : IsTerminator(stream[i])})
                             - Cardinality({i \in 1..(Len(stream) - 1) :
                                   stream[i] = CarriageReturn /\ stream[i + 1] = NewLine})

\* C15 witness: the source ended after a line was yielded, with the bytes of
\* an unterminated line left in the buffer
C15_Witness ==
    /\ pc = "done"
    /\ Len(lines) = 1
    /\ buffer # None
    /\ Len(buffer[1]) >= 2

\* ------------------------------------------------------------ claims on the order of messages
\* the reference lines of a byte stream, as records with a line
RefLines(s) ==
    LET split == RefSplit(s)
    IN  [i \in 1..Len(split) |-> [line |-> split[i]]]

\* every group of lines ended by an empty line, in order, whether or not one
\* of its lines sets a field
RECURSIVE RefGroups(_, _)
RefGroups(ls, group) ==
    IF ls = <<>> THEN <<>>
    ELSE IF Head(ls).line = <<>>
    THEN <<group>> \o RefGroups(Tail(ls), <<>>)
    ELSE RefGroups(Tail(ls), Append(group, Head(ls)))

\* the message m holds the fields set by the lines of group and no other, and
\* each of id, event and data holds the value of one of those lines
BuiltFrom(m, group) ==
    /\ \A key \in FieldKeys : m[key] # None <=> RefSetters(group, key) # {}
    /\ \A key \in {"id", "event", "data"} :
          m[key] # None =>
             \E i \in RefSetters(group, key) : m[key] = Some(RefValue(group[i].line))

DeliveredGroups == RefEmittingGroups(RefLines(SubSeq(stream, 1, sent)), <<>>)

\* C17: when the read of the next chunk fails, the pull of the consumer
\* rejects with the error of the read, no line and no message is emitted by
\* the failure (the pending fields stay where they are), nothing happens after
\* it, and the messages of the groups completed before it were all delivered.
C17_FailurePropagates ==
    /\ [][(pc # "failed" /\ pc' = "failed") =>
             /\ pc = "want_chunk"
             /\ raised' # None
             /\ thrown' = raised'
             /\ out' = out /\ lines' = lines /\ message' = message]_vars
    /\ [][pc # "failed"]_vars
    /\ [](pc = "failed" => Len(out) = Len(DeliveredGroups))
    /\ [](pc # "failed" => thrown = None)

\* C17 witness: the read failed after the message of "id:x" was delivered,
\* while the data of the next group was pending, which was not emitted
C17_Witness ==
    /\ pc = "failed"
    /\ thrown = Some("AbortError")
    /\ out = <<[EmptyMessage EXCEPT !.id = Some(<<120>>)]>>
    /\ message.data = Some(<<121>>)

\* ------------------------------------------------------------ claims on when input is pulled
\* the lines that are complete in the bytes received so far
ReceivedLines == RefSplit(SubSeq(stream, 1, sent))

\* C19: getMessages yields a message on the empty line that ends it, and
\* while it is suspended at that yield no line and no chunk is pulled; getLines
\* awaits a new chunk only when every complete line of the bytes received has
\* been yielded, and never yields a line that is not complete in them.
C19_Backpressure ==
    /\ [][Len(out') > Len(out) =>
             /\ Cur.line = <<>>
             /\ pc' = "message"
             /\ lines' = lines /\ sent' = sent]_vars
    /\ [][pc = "message" => (lines' = lines /\ sent' = sent)]_vars
    /\ [][sent' # sent => (pc = "want_chunk" /\ LineBytes = ReceivedLines)]_vars
    /\ [](pc = "want_chunk" => LineBytes = ReceivedLines)
    /\ [](IsPrefix(LineBytes, ReceivedLines))

\* C19 witness: a message was yielded on the empty line after "id:x" while
\* the bytes received hold a further complete line, not yet pulled
C19_Witness ==
    /\ pc = "message"
    /\ Len(out) = 1
    /\ Len(lines) = 2
    /\ lines[1].line = StrId \o <<Colon, 120>>
    /\ Len(ReceivedLines) > Len(lines)

\* ------------------------------------------------------------ claims on a line ended by \r
\* C20: a line ended by \r is yielded when the \r is scanned: when getLines
\* awaits a chunk and the last byte received is \r, the line that \r ends has
\* been yielded (no byte is held back), and when that line is empty the
\* pending message has been emitted, all before the next chunk is pulled.
C20_CarriageReturnYieldsAtOnce ==
    (pc = "want_chunk" /\ sent > 0 /\ stream[sent] = CarriageReturn) =>
        /\ buffer = None
        /\ discardTrailingNewline
        /\ LineBytes = RefSplit(SubSeq(stream, 1, sent))
        /\ Cur.line = <<>> =>
              /\ message = EmptyMessage
              /\ Len(out) = Len(RefEmittingGroups(lines, <<>>))

\* C20 witness: the bytes received are "id:x\n\r", the empty line ended by
\* \r was yielded and the message of "id:x" emitted, and the next chunk,
\* which begins with \n, is awaited
C20_Witness ==
    /\ pc = "want_chunk"
    /\ sent = 6
    /\ Len(stream) > sent
    /\ stream[sent] = CarriageReturn
    /\ stream[sent + 1] = NewLine
    /\ Len(lines) = 2
    /\ out = <<[EmptyMessage EXCEPT !.id = Some(<<120>>)]>>

\* ------------------------------------------------------------ claims on two pipelines
\* the session ses has emitted a prefix of what its stream gives when parsed
\* alone, and all of it once it is done
AsAlone(ses) ==
    /\ IsPrefix(ses.lines, WholeChunkLines(ses.stream))
    /\ IsPrefix(ses.out, AloneMessages(ses.stream))
    /\ ses.pc = "done" =>
          /\ ses.lines = WholeChunkLines(ses.stream)
          /\ ses.out = AloneMessages(ses.stream)

\* C18: when two parseStream pipelines run at once with their pulls
\* interleaved in any order, each emits exactly the lines and messages it
\* emits when run alone.
C18_SessionsIndependent == AsAlone(Session) /\ AsAlone(other)

\* C18 witness: the pipeline of "id:x\r" is suspended after its line, its
\* CRLF flag set and its id pending, and the pipeline of "\n", run in the
\* meantime, is done: it yielded its empty line and emitted no message
C18_Witness ==
    /\ other.stream = StrId \o <<Colon, 120, CarriageReturn>>
    /\ other.pc = "want_chunk"
    /\ other.discardTrailingNewline
    /\ other.message.id = Some(<<120>>)
    /\ stream = <<NewLine>>
    /\ pc = "done"
    /\ LineBytes = << <<>> >>
    /\ out = <<>>

\* ------------------------------------------------------------ claims on the retained buffer
\* the bytes of s after its last terminator, all of s when it has none: the
\* bytes of the line that is not terminated yet
RefUnterminated(s) ==
    LET ends == {i \in 1..Len(s) : IsTerminator(s[i])}
        last == IF ends = {} THEN 0 ELSE CHOOSE i \in ends : \A j \in ends : j <= i
    IN  SubSeq(s, last + 1, Len(s))

\* C21: whenever getLines waits for the next chunk, its buffer is absent when
\* the bytes received end with a terminator (or are none), and otherwise is
\* exactly the bytes received after the last terminator: no byte of a yielded
\* line and no \n skipped after a \r is kept.
C21_RetainedIsUnterminatedLine ==
    pc = "want_chunk" =>
        LET rest == RefUnterminated(SubSeq(stream, 1, sent))
        IN  IF rest = <<>> THEN buffer = None ELSE buffer = Some(rest)

\* C21 witness: "x\r" came in one chunk and "\nx" in the next; the line "x"
\* was yielded, the \n skipped, and the buffer kept is the last "x" alone
C21_Witness ==
    /\ pc = "want_chunk"
    /\ sent = 4
    /\ prevSent = 2
    /\ SubSeq(stream, 1, 4) = <<120, CarriageReturn, NewLine, 120>>
    /\ LineBytes = << <<120>> >>
    /\ buffer = Some(<<120>>)

\* ------------------------------------------------------------ claims on the chunking of parseStream
\* C22: the messages parseStream emits for a byte sequence are the same for
\* every way of splitting the bytes into chunks, empty chunks and chunks of
\* one byte included: at every moment they are the first of the messages
\* emitted when the bytes come as one chunk, and all of them at the end.
C22_MessagesChunkingInvariant ==
    /\ [][out' # out => IsPrefix(out', AloneMessages(stream'))]_vars
    /\ [](pc = "done" => out = AloneMessages(stream))

\* C22 witness: "id:x\n\r\n" was delivered in several chunks, the last of
\* them the \n alone, after the \r; the stream is done and the one message
\* of the unsplit stream was emitted
C22_Witness ==
    /\ pc = "done"
    /\ stream = StrId \o <<Colon, 120, NewLine, CarriageReturn, NewLine>>
    /\ prevSent = 6
    /\ sent = 7
    /\ out = <<[EmptyMessage EXCEPT !.id = Some(<<120>>)]>>
    /\ out = AloneMessages(stream)

\* ------------------------------------------------------------ claims on emitted messages
\* C23: a message is never changed after it is emitted: no step removes a
\* message from those emitted or changes a field of one of them, and when a
\* line is folded into the pending message, that message is not an object the
\* consumer holds.
C23_EmittedNeverChanged ==
    /\ [][/\ Len(out') >= Len(out)
          /\ \A k \in 1..Len(out) : out'[k] = out[k]]_vars
    /\ [](pc \in {"line", "want_line"} => ~held)

\* C23 witness: after the message of "id:x" was emitted, the line "data:x"
\* was folded into the pending message; the emitted message has the id alone
C23_Witness ==
    /\ pc = "want_line"
    /\ Len(lines) = 3
    /\ lines[3].line = StrData \o <<Colon, 120>>
    /\ out = <<[EmptyMessage EXCEPT !.id = Some(<<120>>)]>>
    /\ message = [EmptyMessage EXCEPT !.data = Some(<<120>>)]

\* ------------------------------------------------------------ claims on termination
\* how many of the bytes received the read position of getLines has passed
Scanned == IF buffer = None THEN sent ELSE sent - Len(buffer[1]) + position

\* C24: over a finite sequence of chunks followed by the end of the stream,
\* with a consumer that keeps pulling, the pipeline finishes; every chunk is
\* read once, in order (the bytes received and the chunks unread always make
\* up the stream, and none is unread at the end); and every pass of the line
\* loop over a byte not yet scanned moves the read position forward.
C24_Terminates ==
    /\ <>(pc = "done")
    /\ [](SubSeq(stream, sent + 1, Len(stream)) = Flatten(unread))
    /\ [][unread' # unread =>
             (unread' = Tail(unread) /\ sent' = sent + Len(Head(unread)))]_vars
    /\ [](pc = "done" => (unread = <<>> /\ sent = Len(stream)))
    /\ [][(\/ pc = "want_line" /\ position < BufLength
           \/ pc = "want_chunk" /\ unread # <<>> /\ Head(unread) # <<>>)
             => Scanned' > Scanned]_vars

\* C24 witness: the chunks of "id:x\n\n", the last of them "\n", were all
\* read, the message was emitted and the pipeline is done
C24_Witness ==
    /\ pc = "done"
    /\ unread = <<>>
    /\ stream = StrId \o <<Colon, 120, NewLine, NewLine>>
    /\ prevSent = 5
    /\ sent = 6
    /\ Len(out) = 1

\* ------------------------------------------------------------ claims on the cursor of getLines
\* C25: whenever getLines holds a buffer, 0 <= lineStart <= position <= the
\* length of the buffer; whenever a buffer is carried to the next chunk,
\* position is its length and fieldLength the offset of its first colon (-1
\* when it has none), and they are what the scan of the next chunk starts
\* from: it resumes at the first new byte.
C25_CursorInvariant ==
    /\ buffer # None =>
          /\ 0 <= lineStart
          /\ lineStart <= position
          /\ position <= Len(buffer[1])
    /\ (pc = "want_chunk" /\ buffer # None) =>
          /\ position = Len(buffer[1])
          /\ fieldLength = RefFirstColon(buffer[1])
          /\ AdoptPosition = Len(buffer[1])
          /\ AdoptFieldLength = RefFirstColon(buffer[1])

\* C25 witness: after a line was yielded, "x:x" was carried over from a chunk
\* that was not the first: position is 3 and fieldLength 1
C25_Witness ==
    /\ pc = "want_chunk"
    /\ Chunked
    /\ Len(lines) = 1
    /\ buffer = Some(<<120, Colon, 120>>)
    /\ position = 3
    /\ fieldLength = 1

====
